---- MODULE Spec2Model ----
(***************************************************************************)
(* Model of three pieces of the XRT host runtime:                          *)
(*   - xmaxclbin.cpp  : decoding of the MEM_TOPOLOGY, CONNECTIVITY and     *)
(*                      IP_LAYOUT sections of an xclbin container into an  *)
(*                      XmaXclbinInfo and the kernel -> DDR bank bitmap;   *)
(*   - run_summary.cpp: hex encoding of the SYSTEM_METADATA payload;       *)
(*   - bo_cache.h     : the mutex protected pool of command BOs.           *)
(***************************************************************************)
EXTENDS Integers, Sequences, FiniteSets, TLC

VARIABLES
  buffer,          \* xclbin container handed to xma_xclbin_info_get
  info,            \* the caller's XmaXclbinInfo
  rc,              \* return code of xma_xclbin_info_get ("none" before the call)
  trace,           \* history: the decode steps xma_xclbin_info_get executed
  spill,           \* stores that landed outside ip_layout / ip_ddr_mapping
  kwrites,         \* history: ip_layout indices stored by get_xclbin_iplayout
  image,           \* axlf image handed to extractSystemProfileMetadata
  mSystemMetadata, \* RunSummary::mSystemMetadata
  mXclbinBaseName, \* RunSummary::mXclbinBaseName
  mCacheMaxSize,   \* bo_cache::mCacheMaxSize
  mCmdBOCache,     \* bo_cache::mCmdBOCache
  mCacheMutex,     \* bo_cache::mCacheMutex: owner thread or NoThread
  tpc,             \* per thread: position inside alloc_impl / release_impl
  tbo,             \* per thread: the BO the running call works on
  held,            \* per thread: BOs handed out by alloc and not yet released
  live,            \* BO handles allocated by xclAllocBO and not yet freed
  lastAlloc,       \* history: how the latest alloc got its BO
  lastRelease      \* history: what the latest release did with its BO

xclbinVars == <<buffer, info, rc, trace, spill, kwrites>>
summaryVars == <<image, mSystemMetadata, mXclbinBaseName>>
cacheVars == <<mCacheMaxSize, mCmdBOCache, mCacheMutex, tpc, tbo, held,
               live, lastAlloc, lastRelease>>
vars == <<buffer, info, rc, trace, spill, kwrites,
          image, mSystemMetadata, mXclbinBaseName,
          mCacheMaxSize, mCmdBOCache, mCacheMutex, tpc, tbo, held,
          live, lastAlloc, lastRelease>>

(***************************************************************************)
(* Part 1: xmaxclbin.cpp                                                   *)
(***************************************************************************)

\* Kernel capacity tested by get_xclbin_iplayout.  The value is set in a
\* header; the model uses a small capacity so that sections below, at and
\* above it can be enumerated.
MAX_KERNEL_CONFIGS == 2
\* Length of the ip_layout and ip_ddr_mapping arrays of XmaXclbinInfo.
MAX_XILINX_KERNELS == MAX_KERNEL_CONFIGS
\* Bank capacity: "XMA supports max of only 64 mem banks".
MAX_DDR_MAP == 64
\* Width of int, the type of the literal 1 in "1 << mem_data_index".
IntBits == 32
\* Width of a bitmap word (uint64_t bit_map).
WordBits == 64
\* Largest CONNECTIVITY section of the inputs; the connectivity array of
\* XmaXclbinInfo is taken to hold that many records.
MaxConnections == 3
\* Longest IP_LAYOUT section of the inputs: room for capacity+1 kernels, or
\* for capacity kernels and one entry that is not a kernel.
MaxIpEntries == MAX_KERNEL_CONFIGS + 1

XMA_SUCCESS == "XMA_SUCCESS"
XMA_ERROR == "XMA_ERROR"
\* get_axlf_section found no header of the kind
NoSection == [present |-> FALSE]
IP_KERNEL == "IP_KERNEL"
IP_OTHER == "IP_MB"

\* ---- the containers the model decodes ----------------------------------

\* mem_data record i of a MEM_TOPOLOGY section; seed varies the content.
MemData(i, seed) ==
  [m_type |-> (i + seed) % 3, m_used |-> (i + seed) % 2, m_size |-> i + 1,
   m_base_address |-> 16 * i + seed, m_tag |-> i + seed]

MemTopologySection(n, seed) ==
  [present |-> TRUE, m_count |-> n, m_mem_data |-> [i \in 0..(n - 1) |-> MemData(i, seed)]]

MemCounts == {0, 4, MAX_DDR_MAP, MAX_DDR_MAP + 1}

MemSections ==
  {NoSection} \cup {MemTopologySection(n, s) : n \in MemCounts, s \in {0, 1}}

Conn(k, b) == [arg_index |-> 0, m_ip_layout_index |-> k, mem_data_index |-> b]

\* connection records: in range for two kernels and four banks, kernel
\* index 1 (out of range for one kernel), a negative kernel index, banks 31
\* and 32 (in range only for more than four banks).
ConnRecords ==
  {Conn(0, 1), Conn(0, 3), Conn(1, 2), Conn(0, 31), Conn(1, 32), Conn(-1, 1)}

SeqsUpTo(S, n) == UNION {[1..m -> S] : m \in 0..n}

ConnectivitySection(s) ==
  [present |-> TRUE, m_count |-> Len(s), m_connection |-> [i \in 0..(Len(s) - 1) |-> s[i + 1]]]

ConnSections ==
  {NoSection} \cup {ConnectivitySection(s) : s \in SeqsUpTo(ConnRecords, MaxConnections)}

IpData(t, nm, addr) == [m_type |-> t, m_name |-> nm, m_base_address |-> addr]

IpEntries ==
  {IpData(IP_KERNEL, "conv", 4096), IpData(IP_KERNEL, "relu", 8192),
   IpData(IP_OTHER, "microblaze", 0)}

IpLayoutSection(s) ==
  [present |-> TRUE, m_count |-> Len(s), m_ip_data |-> [i \in 0..(Len(s) - 1) |-> s[i + 1]]]

IpSections ==
  {NoSection} \cup {IpLayoutSection(s) : s \in SeqsUpTo(IpEntries, MaxIpEntries)}

Container(u, m, c, p) == [uuid |-> u, mem |-> m, conn |-> c, ipl |-> p]

TwoKernels ==
  IpLayoutSection(<<IpData(IP_KERNEL, "conv", 4096), IpData(IP_KERNEL, "relu", 8192)>>)

OneKernel ==
  IpLayoutSection(<<IpData(IP_OTHER, "microblaze", 0), IpData(IP_KERNEL, "relu", 8192)>>)

OneConnection == ConnectivitySection(<<Conn(0, 1)>>)

\* Containers that vary the three sections one family at a time.
DecodeContainers ==
  {Container(1, m, c, p) : m \in MemSections, c \in {NoSection, OneConnection},
                           p \in IpSections}

BitmapContainers ==
  {Container(2, MemTopologySection(n, 0), c, TwoKernels) :
     n \in {4, MAX_DDR_MAP}, c \in ConnSections}
  \cup {Container(2, MemTopologySection(4, 0), c, OneKernel) : c \in ConnSections}

Containers == DecodeContainers \cup BitmapContainers

\* What the build does with undefined behaviour: a shift count outside
\* 0..31 is either reduced modulo the width or yields 0; a store outside an
\* array either lands in the neighbouring memory or is dropped.
UBOutcomes == [shift : {"mask", "zero"}, oob : {"adjacent", "dropped"}]

\* The outcomes that can differ for a container: without a shift count
\* outside 0..31 and without more kernel entries or a kernel index beyond
\* the arrays, nothing undefined is executed and one outcome stands for all.
UBOutcomesOf(buf) ==
  LET conns == IF buf.conn.present
               THEN {buf.conn.m_connection[c] : c \in 0..(buf.conn.m_count - 1)}
               ELSE {}
      wild == \E c \in conns : c.mem_data_index \notin 0..(IntBits - 1)
      stray == \/ \E c \in conns : c.m_ip_layout_index \notin 0..(MAX_XILINX_KERNELS - 1)
               \/ buf.ipl.present /\ buf.ipl.m_count > MAX_XILINX_KERNELS
  IN {ub \in UBOutcomes : /\ (~wild => ub.shift = "mask")
                          /\ (~stray => ub.oob = "adjacent")}

\* xclbin::get_axlf_section: the section of the kind, or none
get_axlf_section(xclbin, kind) ==
  CASE kind = "MEM_TOPOLOGY" -> xclbin.mem
    [] kind = "CONNECTIVITY" -> xclbin.conn
    [] kind = "IP_LAYOUT" -> xclbin.ipl

\* ---- XmaXclbinInfo -------------------------------------------------------

ZeroMem == [m_type |-> 0, m_used |-> 0, m_size |-> 0, m_base_address |-> 0, m_tag |-> 0]
ZeroConn == [arg_index |-> 0, m_ip_layout_index |-> 0, mem_data_index |-> 0]
ZeroIp == [kernel_name |-> "", base_addr |-> 0]

\* a zero-initialised XmaXclbinInfo
ZeroInfo ==
  [number_of_mem_banks |-> 0,
   mem_topology |-> [i \in 0..(MAX_DDR_MAP - 1) |-> ZeroMem],
   number_of_connections |-> 0,
   connectivity |-> [i \in 0..(MaxConnections - 1) |-> ZeroConn],
   number_of_kernels |-> 0,
   ip_layout |-> [i \in 0..(MAX_XILINX_KERNELS - 1) |-> ZeroIp],
   uuid |-> 0,
   ip_ddr_mapping |-> [i \in 0..(MAX_XILINX_KERNELS - 1) |-> {}]]

\* ---- get_xclbin_mem_topology ---------------------------------------------

\* the capacity test of the bank count
Mut_MemBanksExceed(n) == n >= MAX_DDR_MAP
MemBanksExceed(n) == n > MAX_DDR_MAP

CopyMemData(d) ==
  [m_type |-> d.m_type, m_used |-> d.m_used, m_size |-> d.m_size,
   m_base_address |-> d.m_base_address, m_tag |-> d.m_tag]

get_xclbin_mem_topology(buf, xi) ==
  LET ip_hdr == get_axlf_section(buf, "MEM_TOPOLOGY") IN
  IF ip_hdr.present
  THEN LET counted == [xi EXCEPT !.number_of_mem_banks = ip_hdr.m_count] IN
       IF MemBanksExceed(counted.number_of_mem_banks)
       THEN [rc |-> XMA_ERROR, info |-> counted]
       ELSE [rc |-> XMA_SUCCESS,
             info |-> [counted EXCEPT !.mem_topology =
                        [i \in DOMAIN @ |->
                           IF i < ip_hdr.m_count
                           THEN CopyMemData(ip_hdr.m_mem_data[i]) ELSE @[i]]]]
  ELSE [rc |-> XMA_ERROR, info |-> xi]

\* ---- get_xclbin_connectivity ---------------------------------------------

CopyConn(c) ==
  [arg_index |-> c.arg_index, m_ip_layout_index |-> c.m_ip_layout_index,
   mem_data_index |-> c.mem_data_index]

get_xclbin_connectivity(buf, xi) ==
  LET ip_hdr == get_axlf_section(buf, "CONNECTIVITY") IN
  IF ip_hdr.present
  THEN [rc |-> XMA_SUCCESS,
        info |-> [xi EXCEPT !.number_of_connections = ip_hdr.m_count,
                            !.connectivity =
                               [i \in DOMAIN @ |->
                                  IF i < ip_hdr.m_count
                                  THEN CopyConn(ip_hdr.m_connection[i]) ELSE @[i]]]]
  ELSE [rc |-> XMA_ERROR, info |-> xi]

\* ---- get_xclbin_iplayout -------------------------------------------------

\* "m_type != IP_KERNEL: continue"
Mut_IsKernelType(d) == TRUE
IsKernelType(d) == d.m_type = IP_KERNEL

\* "number_of_kernels == MAX_KERNEL_CONFIGS", read from the info while the
\* loop runs
KernelCapacityReached(xi) == xi.number_of_kernels = MAX_KERNEL_CONFIGS

\* the stores of one kernel entry at index j, and j++
StoreKernel(st, d, ub) ==
  LET j == st.j
      rec == [kernel_name |-> d.m_name, base_addr |-> d.m_base_address]
  IN IF j \in DOMAIN st.info.ip_layout
     THEN [st EXCEPT !.info.ip_layout[j] = rec, !.kwrites = @ \cup {j}, !.j = j + 1]
     ELSE [st EXCEPT !.spill = IF ub.oob = "adjacent"
                               THEN @ \cup {[array |-> "ip_layout", index |-> j, value |-> rec]}
                               ELSE @,
                     !.kwrites = @ \cup {j}, !.j = j + 1]

\* the for loop over m_ip_data, from entry i on
RECURSIVE IpLayoutLoop(_, _, _, _)
IpLayoutLoop(ipl, i, st, ub) ==
  IF i >= ipl.m_count THEN st
  ELSE IF ~IsKernelType(ipl.m_ip_data[i]) THEN IpLayoutLoop(ipl, i + 1, st, ub)
  ELSE IF KernelCapacityReached(st.info) THEN [st EXCEPT !.rc = XMA_ERROR]
  ELSE IpLayoutLoop(ipl, i + 1, StoreKernel(st, ipl.m_ip_data[i], ub), ub)

get_xclbin_iplayout(buf, xi, sp, ub) ==
  LET ip_hdr == get_axlf_section(buf, "IP_LAYOUT") IN
  IF ip_hdr.present
  THEN LET st0 == [rc |-> "none", info |-> [xi EXCEPT !.number_of_kernels = 0],
                   j |-> 0, spill |-> sp, kwrites |-> {}]
           st == IpLayoutLoop(ip_hdr, 0, st0, ub)
       IN IF st.rc = XMA_ERROR
          THEN [rc |-> XMA_ERROR, info |-> st.info, spill |-> st.spill,
                kwrites |-> st.kwrites]
          ELSE [rc |-> XMA_SUCCESS,
                info |-> [st.info EXCEPT !.number_of_kernels = st.j, !.uuid = buf.uuid],
                spill |-> st.spill, kwrites |-> st.kwrites]
  ELSE [rc |-> XMA_ERROR, info |-> xi, spill |-> sp, kwrites |-> {}]

\* ---- the bitmap derivation of xma_xclbin_info_get ------------------------

\* the int "1 << n", as the set of its one bits; a count outside 0..31 is
\* undefined
ShiftOne(n, ub) ==
  IF n \in 0..(IntBits - 1) THEN {n}
  ELSE IF ub.shift = "mask" THEN {n % IntBits} ELSE {}

\* conversion of the int operand of "|=" to the 64 bit word: sign extension
ToWord(bits) ==
  IF (IntBits - 1) \in bits THEN bits \cup (IntBits..(WordBits - 1)) ELSE bits

\* "ip_ddr_mapping[m_ip_layout_index] |= 1 << mem_data_index"
OrBank(st, conn, ub) ==
  LET k == conn.m_ip_layout_index
      w == ToWord(ShiftOne(conn.mem_data_index, ub))
  IN IF k \in DOMAIN st.map
     THEN [st EXCEPT !.map[k] = @ \cup w]
     ELSE [st EXCEPT !.spill = IF ub.oob = "adjacent"
                               THEN @ \cup {[array |-> "ip_ddr_mapping", index |-> k, value |-> w]}
                               ELSE @]

\* the for loop over the connections, from record c on
RECURSIVE BitmapLoop(_, _, _, _)
BitmapLoop(xi, c, st, ub) ==
  IF c >= xi.number_of_connections THEN st
  ELSE BitmapLoop(xi, c + 1, OrBank(st, xi.connectivity[c], ub), ub)

\* memset of ip_ddr_mapping and the loop
DeriveBitmap(xi, sp, ub) ==
  LET st0 == [map |-> [i \in DOMAIN xi.ip_ddr_mapping |-> {}], spill |-> sp]
      st == BitmapLoop(xi, 0, st0, ub)
  IN [info |-> [xi EXCEPT !.ip_ddr_mapping = st.map], spill |-> st.spill]

\* ---- xma_xclbin_info_get -------------------------------------------------

\* "if (rc == XMA_ERROR) return rc"
Mut_Failed(r) == FALSE
Failed(r) == r = XMA_ERROR

xma_xclbin_info_get_result(buf, xi, sp, ub) ==
  LET r1 == get_xclbin_mem_topology(buf, xi) IN
  IF Failed(r1.rc)
  THEN [rc |-> r1.rc, info |-> r1.info, spill |-> sp, kwrites |-> {},
        trace |-> <<"mem_topology">>]
  ELSE
  LET r2 == get_xclbin_connectivity(buf, r1.info) IN
  IF Failed(r2.rc)
  THEN [rc |-> r2.rc, info |-> r2.info, spill |-> sp, kwrites |-> {},
        trace |-> <<"mem_topology", "connectivity">>]
  ELSE
  LET r3 == get_xclbin_iplayout(buf, r2.info, sp, ub) IN
  IF Failed(r3.rc)
  THEN [rc |-> r3.rc, info |-> r3.info, spill |-> r3.spill, kwrites |-> r3.kwrites,
        trace |-> <<"mem_topology", "connectivity", "iplayout">>]
  ELSE
  LET r4 == DeriveBitmap(r3.info, r3.spill, ub) IN
  [rc |-> XMA_SUCCESS, info |-> r4.info, spill |-> r4.spill, kwrites |-> r3.kwrites,
   trace |-> <<"mem_topology", "connectivity", "iplayout", "bitmap">>]

NoBuffer == [uuid |-> 0, mem |-> NoSection, conn |-> NoSection, ipl |-> NoSection]
NoUB == [shift |-> "mask", oob |-> "adjacent"]

\* an XmaXclbinInfo left by an earlier successful load
PriorContainer ==
  Container(3, MemTopologySection(3, 1),
            ConnectivitySection(<<Conn(1, 0), Conn(0, 2)>>), OneKernel)
PriorInfo == xma_xclbin_info_get_result(PriorContainer, ZeroInfo, {}, NoUB).info

InitialInfos == {ZeroInfo, PriorInfo}

xma_xclbin_info_get(buf, ub) ==
  /\ rc = "none"
  /\ \E r \in {xma_xclbin_info_get_result(buf, info, spill, ub)} :
       /\ rc' = r.rc
       /\ info' = r.info
       /\ spill' = r.spill
       /\ kwrites' = r.kwrites
       /\ trace' = r.trace
  /\ buffer' = buf
  /\ UNCHANGED <<summaryVars, cacheVars>>

\* idle values of the parts a specification does not use
SummaryIdle ==
  /\ image = [null |-> TRUE]
  /\ mSystemMetadata = <<>>
  /\ mXclbinBaseName = ""

CacheIdle ==
  /\ mCacheMaxSize = 0
  /\ mCmdBOCache = <<>>
  /\ mCacheMutex = 0
  /\ tpc = <<>>
  /\ tbo = <<>>
  /\ held = <<>>
  /\ live = {}
  /\ lastAlloc = "none"
  /\ lastRelease = "none"

XclbinIdle ==
  /\ buffer = NoBuffer
  /\ info = ZeroInfo
  /\ rc = "none"
  /\ trace = <<>>
  /\ spill = {}
  /\ kwrites = {}

InitXclbin ==
  /\ buffer = NoBuffer
  /\ info \in InitialInfos
  /\ rc = "none"
  /\ trace = <<>>
  /\ spill = {}
  /\ kwrites = {}
  /\ SummaryIdle
  /\ CacheIdle

NextXclbin ==
  \E buf \in Containers : \E ub \in UBOutcomesOf(buf) : xma_xclbin_info_get(buf, ub)

SpecXclbin == InitXclbin /\ [][NextXclbin]_vars

(***************************************************************************)
(* Properties of xma_xclbin_info_get                                       *)
(***************************************************************************)

Range(f) == {f[x] : x \in DOMAIN f}

\* the entries of an IP_LAYOUT section as a sequence, and those of type
\* IP_KERNEL among them, in source order
EntriesOf(ipl) == [i \in 1..ipl.m_count |-> ipl.m_ip_data[i - 1]]
KernelEntriesOf(ipl) == SelectSeq(EntriesOf(ipl), LAMBDA d : d.m_type = IP_KERNEL)

Ran(step) == step \in Range(trace)

\* no store of the call went outside an array of the XmaXclbinInfo: the
\* section has at most MAX_XILINX_KERNELS kernels and every connection
\* names a slot of ip_ddr_mapping
StoresInBounds(buf) ==
  /\ buf.ipl.present => Len(KernelEntriesOf(buf.ipl)) <= MAX_XILINX_KERNELS
  /\ buf.conn.present =>
       \A c \in 0..(buf.conn.m_count - 1) :
          buf.conn.m_connection[c].m_ip_layout_index \in 0..(MAX_XILINX_KERNELS - 1)

\* C1: once get_xclbin_iplayout has run on a section, exactly
\* MAX_KERNEL_CONFIGS kernel entries decode successfully into that many
\* kernels, and more than MAX_KERNEL_CONFIGS kernel entries make the call
\* return XMA_ERROR with no kernel stored at an index >= MAX_KERNEL_CONFIGS.
C1_KernelCapacityBoundary ==
  (Ran("iplayout") /\ buffer.ipl.present) =>
     LET n == Len(KernelEntriesOf(buffer.ipl)) IN
       /\ n = MAX_KERNEL_CONFIGS =>
            rc = XMA_SUCCESS /\ info.number_of_kernels = MAX_KERNEL_CONFIGS
       /\ n > MAX_KERNEL_CONFIGS =>
            rc = XMA_ERROR /\ \A j \in kwrites : j < MAX_KERNEL_CONFIGS

\* some decoded connection record links kernel k to bank b
Connected(xi, k, b) ==
  \E c \in 0..(xi.number_of_connections - 1) :
     /\ xi.connectivity[c].m_ip_layout_index = k
     /\ xi.connectivity[c].mem_data_index = b

\* every decoded connection record names a decoded kernel and a decoded bank
AllRecordsValid(xi) ==
  \A c \in 0..(xi.number_of_connections - 1) :
     /\ xi.connectivity[c].m_ip_layout_index \in 0..(xi.number_of_kernels - 1)
     /\ xi.connectivity[c].mem_data_index \in 0..(xi.number_of_mem_banks - 1)

\* C2: after a successful xma_xclbin_info_get on connection records with
\* valid kernel and bank indices, for every kernel k and every bank b (up
\* to MAX_DDR_MAP banks), bit b of ip_ddr_mapping[k] is set iff some decoded
\* connection record has kernel index k and bank index b.
C2_BitmapCorrect ==
  (rc = XMA_SUCCESS /\ AllRecordsValid(info)) =>
    \A k \in (0..(info.number_of_kernels - 1)) \cap DOMAIN info.ip_ddr_mapping :
      \A b \in 0..(info.number_of_mem_banks - 1) :
         (b \in info.ip_ddr_mapping[k]) <=> Connected(info, k, b)

\* C3: after a successful xma_xclbin_info_get no bitmap entry outside the
\* kernel range [0, number_of_kernels) has been written: the slots of
\* ip_ddr_mapping at or above number_of_kernels are still zero and no store
\* went outside the array.
C3_KernelIndexChecked ==
  rc = XMA_SUCCESS =>
    /\ \A k \in DOMAIN info.ip_ddr_mapping :
          k >= info.number_of_kernels => info.ip_ddr_mapping[k] = {}
    /\ \A s \in spill : s.array # "ip_ddr_mapping"

\* C4: after a successful xma_xclbin_info_get no decoded kernel's bitmap has
\* a bit set at a position >= the number of decoded banks.
C4_BankIndexSkipped ==
  rc = XMA_SUCCESS =>
    \A k \in (0..(info.number_of_kernels - 1)) \cap DOMAIN info.ip_ddr_mapping :
      \A b \in info.ip_ddr_mapping[k] : b < info.number_of_mem_banks

\* C5: a call of xma_xclbin_info_get that returns XMA_ERROR leaves every
\* field of the caller's XmaXclbinInfo as it was before the call.
C5_NoPartialModel == [][rc' = XMA_ERROR => info' = info]_vars

\* C6: a container without MEM_TOPOLOGY makes xma_xclbin_info_get return
\* XMA_ERROR after the memory-topology decode alone, the info untouched; a
\* container without CONNECTIVITY or IP_LAYOUT makes it return XMA_ERROR
\* without the bitmap derivation, ip_ddr_mapping untouched.
C6_MissingSectionStops ==
  [][rc' # "none" =>
       /\ ~buffer'.mem.present =>
            rc' = XMA_ERROR /\ trace' = <<"mem_topology">> /\ info' = info
       /\ (~buffer'.conn.present \/ ~buffer'.ipl.present) =>
            /\ rc' = XMA_ERROR
            /\ "bitmap" \notin Range(trace')
            /\ info'.ip_ddr_mapping = info.ip_ddr_mapping
       /\ (buffer'.mem.present /\ buffer'.mem.m_count <= MAX_DDR_MAP
             /\ ~buffer'.conn.present) =>
            trace' = <<"mem_topology", "connectivity">>]_vars

C6_Witness ==
  /\ rc = XMA_ERROR
  /\ ~buffer.mem.present
  /\ buffer.conn.present /\ buffer.conn.m_count > 0
  /\ buffer.ipl.present /\ buffer.ipl.m_count > 0
  /\ trace = <<"mem_topology">>

\* C7: a MEM_TOPOLOGY section of exactly MAX_DDR_MAP banks is decoded into
\* MAX_DDR_MAP bank descriptors equal to the source records, and a section
\* of more than MAX_DDR_MAP banks makes the call return XMA_ERROR at the
\* memory-topology decode with no bank record copied.
C7_BankCapacityCeiling ==
  [][(rc' # "none" /\ buffer'.mem.present) =>
       /\ (buffer'.mem.m_count = MAX_DDR_MAP /\ StoresInBounds(buffer')) =>
            /\ Len(trace') > 1
            /\ info'.number_of_mem_banks = MAX_DDR_MAP
            /\ \A i \in 0..(MAX_DDR_MAP - 1) :
                  info'.mem_topology[i] = buffer'.mem.m_mem_data[i]
       /\ buffer'.mem.m_count > MAX_DDR_MAP =>
            /\ rc' = XMA_ERROR
            /\ trace' = <<"mem_topology">>
            /\ info'.mem_topology = info.mem_topology]_vars

C7_Witness ==
  /\ rc = XMA_SUCCESS
  /\ buffer.mem.present /\ buffer.mem.m_count = MAX_DDR_MAP
  /\ StoresInBounds(buffer)
  /\ info.number_of_mem_banks = MAX_DDR_MAP
  /\ info.mem_topology[MAX_DDR_MAP - 1] = buffer.mem.m_mem_data[MAX_DDR_MAP - 1]

\* C8: after a successful call on an IP_LAYOUT section with at most
\* MAX_KERNEL_CONFIGS kernel entries, ip_layout[0..n-1] holds the entries of
\* type IP_KERNEL in source order, name and base address equal, and
\* number_of_kernels is their number n.
C8_KernelFiltering ==
  (rc = XMA_SUCCESS /\ StoresInBounds(buffer)
     /\ Len(KernelEntriesOf(buffer.ipl)) <= MAX_KERNEL_CONFIGS) =>
    LET ks == KernelEntriesOf(buffer.ipl) IN
      /\ info.number_of_kernels = Len(ks)
      /\ \A i \in 0..(Len(ks) - 1) :
            /\ info.ip_layout[i].kernel_name = ks[i + 1].m_name
            /\ info.ip_layout[i].base_addr = ks[i + 1].m_base_address

C8_Witness ==
  /\ rc = XMA_SUCCESS
  /\ StoresInBounds(buffer)
  /\ Len(KernelEntriesOf(buffer.ipl)) = MAX_KERNEL_CONFIGS
  /\ \E i, j \in 0..(buffer.ipl.m_count - 1) :
        /\ i < j
        /\ buffer.ipl.m_ip_data[i].m_type # IP_KERNEL
        /\ buffer.ipl.m_ip_data[j].m_type = IP_KERNEL
  /\ info.number_of_kernels = MAX_KERNEL_CONFIGS

(***************************************************************************)
(* Part 2: run_summary.cpp, RunSummary::extractSystemProfileMetadata       *)
(***************************************************************************)

\* Longest SYSTEM_METADATA payload of the inputs.
MaxPayload == 3

\* payload bytes: one and two hex digits, digits above 9, both extremes
ByteValues == {0, 10, 16, 171, 255}

NullImage == [null |-> TRUE]
ImageWithout == [null |-> FALSE, meta |-> [present |-> FALSE]]
ImageWith(p) ==
  [null |-> FALSE,
   meta |-> [present |-> TRUE, m_sectionSize |-> Len(p), payload |-> p]]

Images ==
  {NullImage, ImageWithout} \cup {ImageWith(p) : p \in SeqsUpTo(ByteValues, MaxPayload)}

BaseNames == {"a", "b"}

Digits16 == <<"0", "1", "2", "3", "4", "5", "6", "7", "8", "9",
              "a", "b", "c", "d", "e", "f">>

\* operator<< of an unsigned int under std::hex: the digits of n in base
\* 16, lowercase, no leading zero
RECURSIVE PutHex(_)
PutHex(n) ==
  IF n < 16 THEN <<Digits16[n + 1]>>
  ELSE PutHex(n \div 16) \o <<Digits16[(n % 16) + 1]>>

\* std::setw(w) with std::setfill(fill): fill characters on the left up to
\* the width
Mut_Pad(s, w, fill) == s
RECURSIVE Pad(_, _, _)
Pad(s, w, fill) == IF Len(s) >= w THEN s ELSE Pad(<<fill>> \o s, w, fill)

\* buf << std::hex << std::setw(2) << std::setfill('0') << (unsigned int) byte
FormatByte(byte) == Pad(PutHex(byte), 2, "0")

\* the for loop over the payload, from index on (index counts from 0)
RECURSIVE HexLoop(_, _, _)
HexLoop(hdr, index, buf) ==
  IF index >= hdr.m_sectionSize THEN buf
  ELSE HexLoop(hdr, index + 1, buf \o FormatByte(hdr.payload[index + 1]))

extractSystemProfileMetadata(pXclbinImage, xclbinBaseName) ==
  /\ mXclbinBaseName' = xclbinBaseName
  /\ image' = pXclbinImage
  /\ IF pXclbinImage.null THEN mSystemMetadata' = <<>>
     ELSE IF ~pXclbinImage.meta.present THEN mSystemMetadata' = <<>>
     ELSE mSystemMetadata' = HexLoop(pXclbinImage.meta, 0, <<>>)
  /\ UNCHANGED <<xclbinVars, cacheVars>>

InitSummary ==
  /\ image = NullImage
  /\ mSystemMetadata = <<>>
  /\ mXclbinBaseName = ""
  /\ XclbinIdle
  /\ CacheIdle

NextSummary ==
  \E img \in Images, nm \in BaseNames : extractSystemProfileMetadata(img, nm)

SpecSummary == InitSummary /\ [][NextSummary]_vars

\* the inverse of the encoding: two hex digits per byte, high nibble first
HexValue(ch) == (CHOOSE i \in 1..16 : Digits16[i] = ch) - 1
RECURSIVE FromHex(_)
FromHex(s) ==
  IF Len(s) < 2 THEN <<>>
  ELSE <<16 * HexValue(s[1]) + HexValue(s[2])>> \o FromHex(SubSeq(s, 3, Len(s)))

HasPayload(img) == ~img.null /\ img.meta.present

\* C9: after extractSystemProfileMetadata on an image with a SYSTEM_METADATA
\* payload, mSystemMetadata has exactly two characters per payload byte, all
\* of them lowercase hex digits, and decoding it pairwise gives the payload
\* back; the empty payload gives the empty string.
C9_HexRoundTrip ==
  HasPayload(image) =>
    /\ Len(mSystemMetadata) = 2 * Len(image.meta.payload)
    /\ \A i \in 1..Len(mSystemMetadata) : mSystemMetadata[i] \in Range(Digits16)
    /\ FromHex(mSystemMetadata) = image.meta.payload
    /\ image.meta.payload = <<>> => mSystemMetadata = <<>>

C9_Witness ==
  /\ HasPayload(image)
  /\ Len(image.meta.payload) = MaxPayload
  /\ \E i \in 1..MaxPayload : image.meta.payload[i] < 16
  /\ \E i \in 1..MaxPayload : image.meta.payload[i] > 160
  /\ Len(mSystemMetadata) = 2 * MaxPayload

(***************************************************************************)
(* Part 3: bo_cache.h, xrt_core::bo_cache                                  *)
(***************************************************************************)

\* Threads calling alloc and release on the one bo_cache.
NumThreads == 2
\* Largest max_size given to the constructor.
MaxCacheSize == 2
\* Number of BO handles the device can have allocated at a time.
MaxBOs == 3

Threads == 1..NumThreads
Handles == 1..MaxBOs
NoThread == 0
NoBO == 0

Min(S) == CHOOSE x \in S : \A y \in S : x <= y

InitCache ==
  /\ mCacheMaxSize \in 0..MaxCacheSize
  /\ mCmdBOCache = <<>>
  /\ mCacheMutex = NoThread
  /\ tpc = [t \in Threads |-> "idle"]
  /\ tbo = [t \in Threads |-> NoBO]
  /\ held = [t \in Threads |-> {}]
  /\ live = {}
  /\ lastAlloc = "none"
  /\ lastRelease = "none"
  /\ XclbinIdle
  /\ SummaryIdle

\* std::lock_guard<std::mutex> lock(mCacheMutex) at position from
Lock(t, from, to) ==
  /\ tpc[t] = from
  /\ mCacheMutex = NoThread
  /\ mCacheMutex' = t
  /\ tpc' = [tpc EXCEPT ![t] = to]
  /\ UNCHANGED <<mCacheMaxSize, mCmdBOCache, tbo, held, live, lastAlloc, lastRelease>>
  /\ UNCHANGED <<xclbinVars, summaryVars>>

\* alloc_impl: "if (mCacheMaxSize)"
alloc_enter(t) ==
  /\ tpc[t] = "idle"
  /\ tpc' = [tpc EXCEPT ![t] = IF mCacheMaxSize # 0 THEN "alloc_lock" ELSE "alloc_new"]
  /\ UNCHANGED <<mCacheMaxSize, mCmdBOCache, mCacheMutex, tbo, held, live,
                 lastAlloc, lastRelease>>
  /\ UNCHANGED <<xclbinVars, summaryVars>>

alloc_lock(t) == Lock(t, "alloc_lock", "alloc_look")

\* alloc_impl: "if (!mCmdBOCache.empty()) bo = mCmdBOCache.back()"; an empty
\* pool leaves the guarded block, which unlocks
alloc_look(t) ==
  /\ tpc[t] = "alloc_look"
  /\ IF mCmdBOCache # <<>>
     THEN /\ tbo' = [tbo EXCEPT ![t] = mCmdBOCache[Len(mCmdBOCache)]]
          /\ tpc' = [tpc EXCEPT ![t] = "alloc_pop"]
          /\ UNCHANGED mCacheMutex
     ELSE /\ mCacheMutex' = NoThread
          /\ tpc' = [tpc EXCEPT ![t] = "alloc_new"]
          /\ UNCHANGED tbo
  /\ UNCHANGED <<mCacheMaxSize, mCmdBOCache, held, live, lastAlloc, lastRelease>>
  /\ UNCHANGED <<xclbinVars, summaryVars>>

\* alloc_impl: "mCmdBOCache.pop_back(); return bo", which unlocks
alloc_pop(t) ==
  /\ tpc[t] = "alloc_pop"
  /\ mCmdBOCache' = SubSeq(mCmdBOCache, 1, Len(mCmdBOCache) - 1)
  /\ mCacheMutex' = NoThread
  /\ held' = [held EXCEPT ![t] = @ \cup {tbo[t]}]
  /\ lastAlloc' = "cache"
  /\ tbo' = [tbo EXCEPT ![t] = NoBO]
  /\ tpc' = [tpc EXCEPT ![t] = "idle"]
  /\ UNCHANGED <<mCacheMaxSize, live, lastRelease>>
  /\ UNCHANGED <<xclbinVars, summaryVars>>

\* alloc_impl: xclAllocBO and xclMapBO; the device hands out a handle that
\* is not allocated
alloc_new(t) ==
  /\ tpc[t] = "alloc_new"
  /\ Handles \ live # {}
  /\ LET execHandle == Min(Handles \ live) IN
       /\ live' = live \cup {execHandle}
       /\ held' = [held EXCEPT ![t] = @ \cup {execHandle}]
  /\ lastAlloc' = "fresh"
  /\ tpc' = [tpc EXCEPT ![t] = "idle"]
  /\ UNCHANGED <<mCacheMaxSize, mCmdBOCache, mCacheMutex, tbo, lastRelease>>
  /\ UNCHANGED <<xclbinVars, summaryVars>>

\* release_impl of a BO the thread got from alloc: "if (mCacheMaxSize)"
release_enter(t, bo) ==
  /\ tpc[t] = "idle"
  /\ bo \in held[t]
  /\ held' = [held EXCEPT ![t] = @ \ {bo}]
  /\ tbo' = [tbo EXCEPT ![t] = bo]
  /\ tpc' = [tpc EXCEPT ![t] = IF mCacheMaxSize # 0 THEN "release_lock" ELSE "release_destroy"]
  /\ UNCHANGED <<mCacheMaxSize, mCmdBOCache, mCacheMutex, live, lastAlloc, lastRelease>>
  /\ UNCHANGED <<xclbinVars, summaryVars>>

release_lock(t) == Lock(t, "release_lock", "release_test")

\* release_impl: "mCmdBOCache.size() < mCacheMaxSize"
Mut_CacheHasRoom(size, max) == size <= max
CacheHasRoom(size, max) == size < max

\* release_impl: the size test; a full pool leaves the guarded block, which
\* unlocks
release_test(t) ==
  /\ tpc[t] = "release_test"
  /\ IF CacheHasRoom(Len(mCmdBOCache), mCacheMaxSize)
     THEN /\ tpc' = [tpc EXCEPT ![t] = "release_push"]
          /\ UNCHANGED mCacheMutex
     ELSE /\ mCacheMutex' = NoThread
          /\ tpc' = [tpc EXCEPT ![t] = "release_destroy"]
  /\ UNCHANGED <<mCacheMaxSize, mCmdBOCache, tbo, held, live, lastAlloc, lastRelease>>
  /\ UNCHANGED <<xclbinVars, summaryVars>>

\* release_impl: "mCmdBOCache.push_back(bo); return", which unlocks
release_push(t) ==
  /\ tpc[t] = "release_push"
  /\ mCmdBOCache' = Append(mCmdBOCache, tbo[t])
  /\ mCacheMutex' = NoThread
  /\ lastRelease' = "cached"
  /\ tbo' = [tbo EXCEPT ![t] = NoBO]
  /\ tpc' = [tpc EXCEPT ![t] = "idle"]
  /\ UNCHANGED <<mCacheMaxSize, held, live, lastAlloc>>
  /\ UNCHANGED <<xclbinVars, summaryVars>>

\* destroy: munmap and xclFreeBO
release_destroy(t) ==
  /\ tpc[t] = "release_destroy"
  /\ live' = live \ {tbo[t]}
  /\ lastRelease' = "destroyed"
  /\ tbo' = [tbo EXCEPT ![t] = NoBO]
  /\ tpc' = [tpc EXCEPT ![t] = "idle"]
  /\ UNCHANGED <<mCacheMaxSize, mCmdBOCache, mCacheMutex, held, lastAlloc>>
  /\ UNCHANGED <<xclbinVars, summaryVars>>

NextCache ==
  \E t \in Threads :
     \/ alloc_enter(t)
     \/ alloc_lock(t)
     \/ alloc_look(t)
     \/ alloc_pop(t)
     \/ alloc_new(t)
     \/ \E bo \in Handles : release_enter(t, bo)
     \/ release_lock(t)
     \/ release_test(t)
     \/ release_push(t)
     \/ release_destroy(t)

SpecCache == InitCache /\ [][NextCache]_vars

\* C10: in every interleaving of alloc and release the pool never holds
\* more than mCacheMaxSize BOs; with mCacheMaxSize = 0 the pool stays empty,
\* no release puts its BO in the pool and no alloc takes a BO from it.
C10_PoolBound ==
  /\ Len(mCmdBOCache) <= mCacheMaxSize
  /\ mCacheMaxSize = 0 =>
       /\ mCmdBOCache = <<>>
       /\ lastAlloc # "cache"
       /\ lastRelease # "cached"
       /\ \A t \in Threads : tpc[t] \in {"idle", "alloc_new", "release_destroy"}

C10_Witness ==
  /\ mCacheMaxSize > 0
  /\ Len(mCmdBOCache) = mCacheMaxSize
  /\ lastRelease = "destroyed"
  /\ lastAlloc = "cache"

====
